---- MODULE Spec2Model ----
(***************************************************************************)
(* MCP client connection manager: the MCPClient session (connect with      *)
(* cooldown and attempt cap, discovery, bounded disconnect) and the        *)
(* MCPClientsManager registry (addClient / removeClient / refreshClient /  *)
(* stale sweep / tools() / prompts()), as asynchronous tasks interleaved   *)
(* at their await points on one event loop.                                *)
(*                                                                         *)
(* Every async function activation is a task; one action is the code that  *)
(* runs between two suspension points.  A nested call (addClient ->        *)
(* disconnect -> ...) runs inside the caller's task: the task's op is the  *)
(* outermost function, its pc the await it is suspended at.                *)
(***************************************************************************)
EXTENDS Integers, Sequences, FiniteSets, TLC

(* ------------------------------ bounds -------------------------------- *)
\* concurrent async activations
MaxTasks == 2
\* MCPClient objects alive at a time
MaxSessions == 2
\* milliseconds per clock tick
TickMs == 5000
\* length of the long server and tool names
LongLen == 40
\* how many writes to the servers table come from elsewhere
MaxEdits == 1

(* ------------------------- program constants -------------------------- *)
MAX_CONNECTION_ATTEMPTS == 5
CONNECTION_COOLDOWN_MS == 10000
ATTEMPT_RESET_MS == 60000
MAX_NAME_LENGTH == 64

\* lib/const IS_MCP_SERVER_SSE_ONLY: stdio transports are allowed
IS_MCP_SERVER_SSE_ONLY == FALSE

\* Times are kept relative to Date.now(): for a timestamp ts the model holds
\* the age Date.now() - ts, which grows by TickMs with every Tick.  An age
\* over ATTEMPT_RESET_MS passes every comparison of the code the same way,
\* so ages stop growing at AgeCap.  The epoch 0 that lastConnectionTime
\* starts at has age AgeCap.
AgeCap == ATTEMPT_RESET_MS + TickMs
Older(age) == IF age + TickMs < AgeCap THEN age + TickMs ELSE AgeCap
Sooner(delay) == IF delay > TickMs THEN delay - TickMs ELSE 0

(* ------------------------------ strings ------------------------------- *)
\* A string is a sequence of one-character strings.
LowerCase == {"a","b","c","d","e","f","g","h","i","j","k","l","m",
              "n","o","p","q","r","s","t","u","v","w","x","y","z"}
UpperCase == {"A","B","C","D","E","F","G","H","I","J","K","L","M",
              "N","O","P","Q","R","S","T","U","V","W","X","Y","Z"}
Digit == {"0","1","2","3","4","5","6","7","8","9"}
\* /[a-zA-Z0-9_\.\-]/
NameChar == LowerCase \cup UpperCase \cup Digit \cup {"_", ".", "-"}
\* /^[a-zA-Z_]/
NameStartChar == LowerCase \cup UpperCase \cup {"_"}

substring(s, n) == SubSeq(s, 1, IF n < Len(s) THEN n ELSE Len(s))

sanitizeFunctionName(name) ==
  LET replaced == [i \in 1..Len(name) |->
                     IF name[i] \in NameChar THEN name[i] ELSE "_"]
      started  == IF replaced # <<>> /\ replaced[1] \in NameStartChar
                  THEN replaced ELSE <<"_">> \o replaced
  IN  IF Len(started) > MAX_NAME_LENGTH
      THEN substring(started, MAX_NAME_LENGTH) ELSE started

createMCPToolId(serverName, toolName) ==
  LET sanitizedServer == sanitizeFunctionName(serverName)
      sanitizedTool   == sanitizeFunctionName(toolName)
      separator       == <<"_">>
      totalLength     == Len(sanitizedServer) + Len(sanitizedTool)
      \* Math.floor((server.length / totalLength) * (maxLength - 1))
      serverPortion   == (Len(sanitizedServer) * (MAX_NAME_LENGTH - 1))
                            \div totalLength
      toolPortion     == MAX_NAME_LENGTH - 1 - serverPortion
  IN  IF totalLength + 1 > MAX_NAME_LENGTH
      THEN substring(sanitizedServer, serverPortion) \o separator
             \o substring(sanitizedTool, toolPortion)
      ELSE sanitizedServer \o separator \o sanitizedTool

\* toolId.indexOf("_"), 0 when there is none
RECURSIVE indexOfUnderscore(_, _)
indexOfUnderscore(s, i) ==
  IF i > Len(s) THEN 0
  ELSE IF s[i] = "_" THEN i ELSE indexOfUnderscore(s, i + 1)

\* extractMCPToolId splitting at the last "_" instead of the first
extractMCPToolIdAtLast(toolId) ==
  LET at == {j \in 1..Len(toolId) : toolId[j] = "_"}
      i == IF at = {} THEN 0 ELSE CHOOSE j \in at : \A k \in at : k <= j
  IN  IF i = 0 THEN [serverName |-> toolId, toolName |-> <<>>]
      ELSE [serverName |-> SubSeq(toolId, 1, i - 1),
            toolName |-> SubSeq(toolId, i + 1, Len(toolId))]
\* const [serverName, ...toolName] = toolId.split("_"), toolName.join("_");
\* the whole string and "" when toolId is empty or has no "_"
extractMCPToolId(toolId) ==
  LET i == indexOfUnderscore(toolId, 1)
  IN  IF i = 0 THEN [serverName |-> toolId, toolName |-> <<>>]
      ELSE [serverName |-> SubSeq(toolId, 1, i - 1),
            toolName |-> SubSeq(toolId, i + 1, Len(toolId))]

\* `${serverName}/${promptName}`
promptKey(serverName, promptName) == serverName \o <<"/">> \o promptName

(* ------------------------------ inputs -------------------------------- *)
\* server names the callers use
Names == { <<"a">>, <<"b">> }
\* MCPServerConfig values: a stdio config, an sse config, and one that is
\* neither (isMaybeStdioConfig and isMaybeSseConfig both false)
Configs == {"stdio", "sse", "invalid"}
\* what a remote server may answer to listTools / listPrompts
ToolLists == { {<<"t">>, <<"u">>} }
PromptLists == { {<<"p">>} }

isMaybeStdioConfig(config) == config = "stdio"
isMaybeSseConfig(config) == config = "sse"

\* what the callers of the manager pass: a stdio configuration (whose
\* transport may or may not expose a child process, so it covers what an SSE
\* one does) or one that is neither; refreshClient with or without a new one
ManagerConfigs == {"stdio", "invalid"}
UpdateConfigs == {"stdio", "none"}
\* A row of the servers table: no row, a row that is not enabled, or an
\* enabled row with its config.  NameOrder is the order selectAllServers
\* returns the rows in.
Rows == {"none", "off"} \cup ManagerConfigs
Enabled(row) == row \notin {"none", "off"}
NameOrder == << <<"a">>, <<"b">> >>
NoRows == [n \in Names |-> "none"]
\* the manager's storage is not the database-backed one
NoDb == << >>

\* JSON.stringify(server.config) of the configurations used here
JSONstringify(config) ==
  CASE config = "stdio" -> "{\"command\":\"node\",\"args\":[]}"
    [] config = "sse" -> "{\"url\":\"http://host/sse\"}"
    [] OTHER -> "{}"
\* lastServerConfigs[name] of a name that is not cached (undefined)
NoFingerprint == ""
NoCache == [n \in Names |-> NoFingerprint]

\* server names a tool ID is derived from, and a name of LongLen characters
ServerNames ==
  { <<"w","e","a","t","h","e","r","-","s","e","r","v","e","r">>,
    <<"a">>,
    <<"s","r","v",".","1">>,
    <<"a","_","b">>,
    <<"m","y"," ","s","e","r","v","e","r">>,
    <<"9","x">>,
    [i \in 1..LongLen |-> "s"] }
\* tool names, and one of LongLen characters
ToolNames ==
  { <<"g","e","t","_","f","o","r","e","c","a","s","t">>,
    <<"g","e","t"," ","f","o","r","e","c","a","s","t">>,
    <<"t">>,
    <<"c">>,
    <<"b","_","c">>,
    [i \in 1..LongLen |-> "t"] }
\* IDs that were not made by createMCPToolId
RawIds ==
  { <<"w","e","a","t","h","e","r">>,
    << >>,
    <<"a","-","b",".","c">> }

\* no tool ID is being derived
NoParts == [serverName |-> << >>, toolName |-> << >>]
NoIds == [stage |-> "none", serverName |-> << >>, toolName |-> << >>,
          otherServer |-> << >>, otherTool |-> << >>,
          toolId |-> << >>, otherId |-> << >>, extracted |-> NoParts]

Tasks == 1..MaxTasks
SessionIds == 1..MaxSessions
NoSession == 0

(* ------------------------------- state -------------------------------- *)
VARIABLES
  sessions,      \* the MCPClient objects, by id
  clients,       \* MCPClientsManager.clients: name -> session id (or NoSession)
  isRefreshing,  \* MCPClientsManager.isRefreshing
  storage,       \* whether the manager was constructed with a config storage
  tasks,         \* the async activations: op, pc and locals of each
  initialized,   \* MCPClientsManager.initialized
  lastServerConfigs,  \* the storage's cache: name -> fingerprint
  servers,       \* the rows of the database behind the storage (or NoDb)
  debounce,      \* the storage's debounce holds a pending refreshClients
  pollingInterval,    \* the storage's 5-minute poll is set up
  cleaning,      \* the last cleanup() call: its pending disconnects, result
  edits,         \* (history) how often somebody else wrote the servers table
  ids            \* a tool ID being derived: the names, the ID, its parts

vars == <<sessions, clients, isRefreshing, storage, tasks, initialized,
          lastServerConfigs, servers, debounce, pollingInterval, cleaning,
          edits, ids>>

\* what the steps of the manager's and the sessions' methods leave alone
store == <<storage, servers, debounce, edits, ids>>

(* ----------------------------- MCPClient ------------------------------ *)
\* new MCPClient(name, serverConfig, options): the fields after construction.
\* lastConnectionAge is Date.now() - this.lastConnectionTime.
\* autoDisconnect: options.autoDisconnectSeconds is set (truthy).
\* failedRun is history, not a field of the class: the number of consecutive
\* connect() attempts that failed (ended in the catch block), each begun
\* less than ATTEMPT_RESET_MS after the one before, with no attempt that
\* succeeded in between.
NewSession(name, config, autoDisconnect) ==
  [ name |-> name, serverConfig |-> config, autoDisconnect |-> autoDisconnect,
    isConnected |-> FALSE, client |-> "undefined", error |-> FALSE,
    locked |-> FALSE, connectionAttempts |-> 0, lastConnectionAge |-> AgeCap,
    toolInfo |-> {}, tools |-> {}, promptInfo |-> {}, timer |-> FALSE,
    failedRun |-> 0 ]

\* Locker (lib/utils): lock() / unlock() / isLocked; wait() resolves once the
\* lock is not held.
LockerLock(s) == [s EXCEPT !.locked = TRUE]
LockerUnlock(s) == [s EXCEPT !.locked = FALSE]
LockerIsLocked(s) == s.locked

\* getInfo().status
Status(s) ==
  IF LockerIsLocked(s) THEN "loading"
  ELSE IF s.isConnected THEN "connected" ELSE "disconnected"

\* createDebounce (lib/utils): the pending call is cancelled and re-armed
scheduleAutoDisconnect(s) ==
  IF s.autoDisconnect THEN [s EXCEPT !.timer = TRUE] ELSE s

\* `return this.client`
ReturnClient(s) == IF s.client = "undefined" THEN "undefined" ELSE "handle"

\* new StdioClientTransport / new SSEClientTransport, or a throw
TransportConstructible(config) ==
  \/ isMaybeStdioConfig(config) /\ ~IS_MCP_SERVER_SSE_ONLY
  \/ ~isMaybeStdioConfig(config) /\ isMaybeSseConfig(config)

\* the remainder of the cooldown that connect() sleeps
CooldownRemainingNone(timeSinceLastAttempt) == 0
CooldownRemaining(timeSinceLastAttempt) ==
  CONNECTION_COOLDOWN_MS - timeSinceLastAttempt

BumpRun(n) == IF n < MAX_CONNECTION_ATTEMPTS THEN n + 1 ELSE n

\* connect(): the catch block
ConnectCatchKeepsFlag(s) ==
  [s EXCEPT !.error = TRUE, !.failedRun = BumpRun(@)]
ConnectCatch(s) ==
  [s EXCEPT !.isConnected = FALSE, !.error = TRUE, !.failedRun = BumpRun(@)]

\* connect(): transport connected
ConnectEstablished(s) ==
  [s EXCEPT !.isConnected = TRUE, !.error = FALSE, !.client = "handle",
            !.connectionAttempts = 0]

\* connect(): after the prompt listing, to the return
ConnectDiscovered(s, toolList) ==
  LockerUnlock(scheduleAutoDisconnect(
    [s EXCEPT !.tools = toolList, !.failedRun = 0]))

\* disconnect(): state reset before the close
DisconnectReset(s) ==
  [s EXCEPT !.isConnected = FALSE, !.client = "undefined",
            !.connectionAttempts = 0]

\* disconnect(): the already-disconnected return
DisconnectNoop(s) ==
  [s EXCEPT !.isConnected = FALSE, !.client = "undefined"]

(* ------------------------------- tasks -------------------------------- *)
IdleTask ==
  [ op |-> "none", pc |-> "idle", sess |-> NoSession, name |-> <<>>,
    config |-> "none", fn |-> "none", prev |-> NoSession,
    existing |-> NoSession, created |-> NoSession, toolResponse |-> {},
    since |-> 0, issueAge |-> 0, remaining |-> 0, openGap |-> 0,
    sixth |-> FALSE, delayed |-> FALSE, res |-> "none",
    batch |-> "none", loaded |-> NoRows, changed |-> {}, current |-> {},
    idx |-> 0, scheduled |-> FALSE ]

\* a slot a new call can take
Free(t) == tasks[t].pc \in {"idle", "done"}

\* Locals of a task:
\*   since      timeSinceLastAttempt, as connect() computed it
\*   issueAge   Date.now() - now, for the `now` connect() read
\*   remaining  what is left of the cooldown sleep
\*   openGap    (history) at the transport open, the time since the
\*              lastConnectionTime that connect() had read, up to the cooldown
\*   batch      the caller that awaits the call: "init" (the loop of
\*              init()), "pass" (refreshClients), "init_pass" (the
\*              refreshClients of storage.init inside init()), "callTool",
\*              or "none"
\*   scheduled  (history) callTool has run scheduleAutoDisconnect()
\*   loaded     the rows a batch loaded (servers / configs)
\*   changed    changedConfigs of a pass
\*   current    currentClients of a pass
\*   idx        position of a batch's loop in NameOrder
\*   delayed    (history) the call slept through the rest of a cooldown
\*   sixth      (history) the attempt follows MAX_CONNECTION_ATTEMPTS
\*              consecutive failed ones, the last less than
\*              ATTEMPT_RESET_MS before

\* the call of the task is over with result res; inside a batch or
\* callTool, the caller resumes from its await with that result
Done(task, res) ==
  IF task.batch = "none"
  THEN [IdleTask EXCEPT !.op = task.op, !.pc = "done", !.res = res]
  ELSE [IdleTask EXCEPT !.op = task.op, !.pc = "resume", !.res = res,
                        !.batch = task.batch, !.loaded = task.loaded,
                        !.changed = task.changed, !.current = task.current,
                        !.idx = task.idx,
                        !.sess = IF task.batch = "callTool" THEN task.sess
                                 ELSE NoSession]

\* connect() from the attempt-counter reset on.
\* Gives the session and the task after the synchronous run.
ConnectProceed(task, s) ==
  LET run == IF task.since < ATTEMPT_RESET_MS THEN s.failedRun ELSE 0
      s1 == IF task.since > ATTEMPT_RESET_MS
            THEN [s EXCEPT !.connectionAttempts = 0, !.failedRun = run]
            ELSE [s EXCEPT !.failedRun = run]
      t1 == [task EXCEPT !.sixth = (run >= MAX_CONNECTION_ATTEMPTS),
                         !.delayed = (task.since < CONNECTION_COOLDOWN_MS),
                         !.since = 0, !.issueAge = 0, !.remaining = 0]
  IN  IF s1.connectionAttempts >= MAX_CONNECTION_ATTEMPTS
      THEN [s |-> s1, task |-> Done(t1, "thrown")]
      ELSE LET s2 == LockerLock([s1 EXCEPT !.connectionAttempts = @ + 1,
                                           !.lastConnectionAge = task.issueAge])
               gap == task.since + task.issueAge
               t2 == [t1 EXCEPT !.openGap =
                        IF gap < CONNECTION_COOLDOWN_MS
                        THEN gap ELSE CONNECTION_COOLDOWN_MS]
           IN  IF TransportConstructible(s.serverConfig)
               THEN [s |-> s2, task |-> [t2 EXCEPT !.pc = "c_race"]]
               ELSE LET s3 == LockerUnlock(ConnectCatch(s2))
                    IN  [s |-> s3, task |-> Done(t2, ReturnClient(s3))]

\* connect() from its first line to its first await (or its return)
ConnectEnter(task, sid, s) ==
  LET t0 == [task EXCEPT !.sess = sid, !.since = 0, !.issueAge = 0,
                         !.remaining = 0, !.openGap = 0, !.sixth = FALSE,
                         !.delayed = FALSE]
  IN  IF s.isConnected /\ s.client # "undefined"
      THEN [s |-> s, task |-> Done(t0, "handle")]
      ELSE IF LockerIsLocked(s)
      THEN [s |-> s, task |-> [t0 EXCEPT !.pc = "c_wait"]]
      ELSE LET since == s.lastConnectionAge
               t1 == [t0 EXCEPT !.since = since]
           IN  IF since < CONNECTION_COOLDOWN_MS
               THEN [s |-> s,
                     task |-> [t1 EXCEPT !.pc = "c_sleep",
                                 !.remaining = CooldownRemaining(since)]]
               ELSE ConnectProceed(t1, s)

\* disconnect() from its first line to `await this.locker.wait()`
DisconnectEnter(task, sid, s) ==
  [task EXCEPT !.sess = sid,
               !.pc = IF LockerIsLocked(s) THEN "d_wait" ELSE "d_ready"]

ConnectBodyPcs == {"c_race", "c_tools", "c_prompts"}
DisconnectBodyPcs == {"d_kill", "d_close"}

(* ------------------------ the state a step changes --------------------- *)
\* sessions, manager map and flags, the storage's cache and poll, and the
\* running task
\* (threw: client.close() rejected in this step)
St(ss, cl, rf, task, ini, last, poll) ==
  [sessions |-> ss, clients |-> cl, isRefreshing |-> rf, task |-> task,
   initialized |-> ini, lastServerConfigs |-> last, pollingInterval |-> poll,
   threw |-> FALSE]

Here(t) == St(sessions, clients, isRefreshing, tasks[t], initialized,
              lastServerConfigs, pollingInterval)

\* An MCPClient that nothing refers to any more (no map entry, no local of
\* a running task, no armed timer) and that is disconnected is garbage: its
\* slot is free and holds Collected.
Collected == NewSession(<<>>, "none", FALSE)

Referenced(sid, cl, tk) ==
  \/ \E n \in Names : cl[n] = sid
  \/ \E t \in Tasks : sid \in {tk[t].sess, tk[t].prev, tk[t].existing,
                                 tk[t].created}

Garbage(sid, ss, cl, tk) ==
  /\ ~Referenced(sid, cl, tk)
  /\ ~ss[sid].timer
  /\ Status(ss[sid]) = "disconnected"

Collect(ss, cl, tk) ==
  [sid \in DOMAIN ss |->
     IF Garbage(sid, ss, cl, tk) THEN Collected ELSE ss[sid]]

FreeSlots(ss) == {sid \in DOMAIN ss : ss[sid] = Collected}

\* cleanup(): `await Promise.allSettled(...)` is over when the last of the
\* disconnects has settled; rejections are counted, cleanup() resolves
allSettled(threw) == "void"

\* suspended is history: the activations that were inside addClient or
\* refreshClient when cleanup() ran and have not left that call since
NoCleanup == [pending |-> {}, threw |-> FALSE, res |-> "none",
              suspended |-> {}]

\* the cleanup() call after the disconnect of task t has taken a step
cleanupProgress(cl, t, task, threw) ==
  LET suspended == IF task.fn \in {"addClient", "refreshClient"}
                   THEN cl.suspended ELSE cl.suspended \ {t}
  IN  IF t \notin cl.pending THEN [cl EXCEPT !.suspended = suspended]
      ELSE LET pending == IF task.pc = "done" THEN cl.pending \ {t}
                          ELSE cl.pending
               th == cl.threw \/ threw
           IN  [pending |-> pending, threw |-> th,
                res |-> IF pending = {} THEN allSettled(th) ELSE "pending",
                suspended |-> suspended]

Apply(t, st) ==
  LET tk == [tasks EXCEPT ![t] = st.task]
  IN  /\ sessions' = Collect(st.sessions, st.clients, tk)
      /\ cleaning' = cleanupProgress(cleaning, t, st.task, st.threw)
      /\ clients' = st.clients
      /\ isRefreshing' = st.isRefreshing
      /\ tasks' = tk
      /\ initialized' = st.initialized
      /\ lastServerConfigs' = st.lastServerConfigs
      /\ pollingInterval' = st.pollingInterval

WithSession(st, sid, s) == [st EXCEPT !.sessions[sid] = s]
WithTask(st, task) == [st EXCEPT !.task = task]

\* run connect() on session sid inside the task of st
Connect(st, sid) ==
  LET r == ConnectEnter(st.task, sid, st.sessions[sid])
  IN  WithTask(WithSession(st, sid, r.s), r.task)

\* run disconnect() on session sid inside the task of st
Disconnect(st, sid) ==
  WithTask(st, DisconnectEnter(st.task, sid, st.sessions[sid]))

(* -------------------------- MCPClientsManager -------------------------- *)
\* addClient: createMCPClient, clients.set, return client.connect()
AddCreate(st) ==
  LET free == FreeSlots(st.sessions)
      sid == IF free = {} THEN NoSession
             ELSE CHOOSE x \in free : \A y \in free : x <= y
      s0  == NewSession(st.task.name, st.task.config, TRUE)
      st1 == [st EXCEPT !.sessions[sid] = s0,
                        !.clients[st.task.name] = sid,
                        !.task.created = sid]
  IN  IF sid = NoSession THEN [st EXCEPT !.task.pc = "no room"]
      ELSE Connect(st1, sid)

\* addClient: after the storage block, the existing client is cleaned up
AddAfterStorage(st) ==
  IF st.task.existing # NoSession
  THEN Disconnect(st, st.task.existing)
  ELSE AddCreate(st)

\* addClient: existingClient.disconnect() has settled
AddAfterDisconnect(st) ==
  AddCreate([st EXCEPT !.clients[st.task.name] = NoSession])

\* addClient: the catch block
AddCatch(st) ==
  [st EXCEPT !.clients[st.task.name] = NoSession,
             !.task = Done(st.task, "thrown")]

\* addClient(name, serverConfig) to its first await
AddEnter(st, name, config, hasStorage) ==
  LET existing == st.clients[name]
      t0 == [st.task EXCEPT !.fn = "addClient", !.name = name,
                            !.config = config, !.existing = existing,
                            !.sess = NoSession, !.created = NoSession]
      st0 == WithTask(st, t0)
  IN  IF /\ existing # NoSession
         /\ st.sessions[existing].serverConfig = config
         /\ Status(st.sessions[existing]) = "connected"
      THEN WithTask(st, Done([t0 EXCEPT !.sess = existing], "session"))
      ELSE IF hasStorage
      THEN WithTask(st, [t0 EXCEPT !.pc = "add_has"])
      ELSE AddAfterStorage(st0)

\* removeClient: after the storage block
RemoveAfterStorage(st) ==
  LET client == st.clients[st.task.name]
  IN  IF client # NoSession
      THEN Disconnect(st, client)
      ELSE WithTask(st, Done(st.task, "void"))

\* removeClient: client.disconnect() has settled
RemoveAfterDisconnect(st) ==
  [st EXCEPT !.clients[st.task.name] = NoSession,
             !.task = Done(st.task, "void")]

\* removeClient(name) to its first await
RemoveEnter(st, name, hasStorage) ==
  LET t0 == [st.task EXCEPT !.fn = "removeClient", !.name = name]
  IN  IF hasStorage
      THEN WithTask(st, [t0 EXCEPT !.pc = "rm_has"])
      ELSE RemoveAfterStorage(WithTask(st, t0))

\* refreshClient: `return this.addClient(name, config)`; the promise is
\* returned un-awaited out of the try, so the finally block runs as
\* addClient reaches its first await
RefreshReAdd(st, hasStorage) ==
  AddEnter([st EXCEPT !.isRefreshing = FALSE],
           st.task.name, st.task.config, hasStorage)

\* refreshClient: the disconnect / recreate decision
RefreshBranch(st, hasStorage) ==
  LET prev == st.task.prev
      currentConfig == st.sessions[prev].serverConfig
  IN  IF \/ Status(st.sessions[prev]) = "connected"
         \/ currentConfig # st.task.config
      THEN Disconnect(st, prev)
      ELSE RefreshReAdd([st EXCEPT !.clients[st.task.name] = NoSession],
                        hasStorage)

\* refreshClient: the inner catch block, then finally
RefreshCatch(st) ==
  [st EXCEPT !.clients[st.task.name] =
                IF @ = NoSession THEN st.task.prev ELSE @,
             !.isRefreshing = FALSE,
             !.task = Done(st.task, "thrown")]

\* refreshClient(name, updateConfig) to its first await
RefreshEnter(st, name, updateConfig, hasStorage) ==
  LET prev == st.clients[name]
      t0 == [st.task EXCEPT !.fn = "refreshClient", !.name = name,
                            !.prev = prev, !.sess = prev]
  IN  IF st.isRefreshing
      THEN WithTask(st, Done([t0 EXCEPT !.prev = NoSession],
                     IF prev = NoSession THEN "undefined" ELSE "deferred"))
      ELSE IF prev = NoSession
      THEN WithTask(st, Done(t0, "thrown"))
      ELSE LET currentConfig == st.sessions[prev].serverConfig
               config == IF updateConfig = "none" THEN currentConfig
                         ELSE updateConfig
               t1 == [t0 EXCEPT !.config = config]
               st1 == [st EXCEPT !.isRefreshing = TRUE, !.task = t1]
           IN  IF /\ currentConfig = config
                  /\ Status(st.sessions[prev]) = "connected"
               THEN WithTask(st, Done(t1, "session"))
               ELSE IF hasStorage /\ currentConfig # config
               THEN WithTask(st1, [t1 EXCEPT !.pc = "ref_save"])
               ELSE RefreshBranch(st1, hasStorage)

\* a disconnect() call of the task has settled: the caller goes on
AfterDisconnect(st) ==
  CASE st.task.fn = "addClient" -> AddAfterDisconnect(st)
    [] st.task.fn = "removeClient" -> RemoveAfterDisconnect(st)
    [] st.task.fn = "refreshClient" ->
         WithTask(st, [st.task EXCEPT !.pc = "ref_pause"])
    [] OTHER -> WithTask(st, Done(st.task, "void"))

\* tools() / prompts(): the clients that pass
\* .filter((client) => client.getInfo().status === "connected")
registeredClients(ss, cl) == {cl[n] : n \in {m \in Names : cl[m] # NoSession}}
connectedClientsUnfiltered(ss, cl) == registeredClients(ss, cl)
connectedClients(ss, cl) ==
  {sid \in registeredClients(ss, cl) : Status(ss[sid]) = "connected"}

\* tools(): the entries handed to Object.fromEntries, as key -> the entries
\* written under that key (the object keeps the last one written)
toolsEntries(ss, cl) ==
  UNION { { [key |-> createMCPToolId(ss[sid].name, tool),
             client |-> sid, name |-> tool] : tool \in ss[sid].tools }
          : sid \in connectedClients(ss, cl) }
tools(ss, cl) ==
  [k \in {e.key : e \in toolsEntries(ss, cl)} |->
     {e \in toolsEntries(ss, cl) : e.key = k}]

\* prompts(): likewise, keyed `${serverInfo.name}/${promptInfoItem.name}`
promptsEntries(ss, cl) ==
  UNION { { [key |-> promptKey(ss[sid].name, prompt),
             client |-> sid, name |-> prompt] : prompt \in ss[sid].promptInfo }
          : sid \in connectedClients(ss, cl) }
prompts(ss, cl) ==
  [k \in {e.key : e \in promptsEntries(ss, cl)} |->
     {e \in promptsEntries(ss, cl) : e.key = k}]

\* the step of st found a slot for every MCPClient it constructed
RoomFor(st) == st.task.pc # "no room"

(* ------------------------- MCPClient.callTool -------------------------- *)
\* lib/utils isNull
isNull(v) == v \in {"null", "undefined"}

\* callTool is over: unwrap() returns the value or throws
ToolDone(task, res, scheduled) ==
  [IdleTask EXCEPT !.op = task.op, !.pc = "done", !.res = res,
                   !.scheduled = scheduled]

\* callTool: the chain behind .map(): the value v of client?.callTool(...)
\* (or "rejected") goes through the null check, scheduleAutoDisconnect()
\* and unwrap()
ToolChain(st, v) ==
  LET sid == st.task.sess
  IN  IF v = "rejected" \/ isNull(v)
      THEN WithTask(st, ToolDone(st.task, "thrown", FALSE))
      ELSE WithTask(WithSession(st, sid,
                                scheduleAutoDisconnect(st.sessions[sid])),
                    ToolDone(st.task, v, TRUE))

\* callTool: `await this.connect()` has settled with task.res
ToolAfterConnect(st) ==
  CASE st.task.res = "thrown" -> ToolChain(st, "rejected")
    [] st.task.res = "undefined" -> ToolChain(st, "undefined")
    [] OTHER -> WithTask(st, [st.task EXCEPT !.pc = "tool_call"])

(* ------------------- init() and the storage's refreshClients ----------- *)
\* refreshClients: newServerConfigs, the fingerprints of the enabled rows
newServerConfigs(rows) ==
  [n \in Names |->
     IF Enabled(rows[n]) THEN JSONstringify(rows[n]) ELSE NoFingerprint]

\* refreshClients: changedConfigs, the enabled names whose fingerprint is
\* not the cached one, and the cached names that are no longer enabled
changedConfigsAll(rows, last) == {n \in Names : Enabled(rows[n])}
changedConfigs(rows, last) ==
  {n \in Names : /\ Enabled(rows[n])
                 /\ \/ last[n] = NoFingerprint
                    \/ last[n] # JSONstringify(rows[n])}
  \cup {n \in Names : /\ last[n] # NoFingerprint
                      /\ newServerConfigs(rows)[n] = NoFingerprint}

\* init(): past the loop, initialized = true
InitFinish(st) ==
  [st EXCEPT !.initialized = TRUE,
             !.task = [IdleTask EXCEPT !.op = "init", !.pc = "done",
                                       !.res = "void"]]

\* a refreshClients pass is over; inside init() this is storage.init, which
\* sets up the poll, and init() goes on with storage.loadAll()
PassEnd(st, how) ==
  IF st.task.batch = "init_pass"
  THEN [st EXCEPT !.pollingInterval = TRUE,
                  !.task = [IdleTask EXCEPT !.op = "init", !.batch = "init",
                                            !.pc = "init_load"]]
  ELSE WithTask(st, [IdleTask EXCEPT !.op = "refreshClients", !.pc = "done",
                                     !.res = how])

\* refreshClients: the catch block logs; lastServerConfigs stays
PassCatchUpdatesCache(st) ==
  PassEnd([st EXCEPT !.lastServerConfigs = newServerConfigs(st.task.loaded)],
          "failed")
PassCatch(st) == PassEnd(st, "failed")

\* refreshClients: lastServerConfigs = newServerConfigs after the loops
PassCommit(st) ==
  PassEnd([st EXCEPT !.lastServerConfigs = newServerConfigs(st.task.loaded)],
          "applied")

\* refreshClients: the loop over the rows from position task.idx on, then
\* the loop over what is left of currentClients (pick: the Set's order)
RECURSIVE PassLoop(_, _, _)
PassLoop(st, hasStorage, pick) ==
  LET i == st.task.idx
  IN  IF i <= Len(NameOrder)
      THEN LET name == NameOrder[i]
               row == st.task.loaded[name]
               skip == [st EXCEPT !.task.idx = i + 1]
               next == [skip EXCEPT !.task.current = @ \ {name}]
           IN  IF ~Enabled(row) THEN PassLoop(skip, hasStorage, pick)
               ELSE IF name \in st.task.current
               THEN IF name \in st.task.changed
                    THEN RefreshEnter(next, name, row, hasStorage)
                    ELSE PassLoop(next, hasStorage, pick)
               ELSE AddEnter(next, name, row, hasStorage)
      ELSE IF st.task.current # {}
      THEN LET name == IF pick \in st.task.current THEN pick
                       ELSE CHOOSE n \in st.task.current : TRUE
           IN  RemoveEnter([st EXCEPT !.task.current = @ \ {name}],
                           name, hasStorage)
      ELSE PassCommit(st)

\* refreshClients: selectAllServers has resolved with rows
PassStart(st, rows, hasStorage, pick) ==
  LET changed == changedConfigs(rows, st.lastServerConfigs)
      current == {st.sessions[sid].name :
                    sid \in registeredClients(st.sessions, st.clients)}
  IN  IF changed = {} THEN PassEnd(st, "skipped")
      ELSE PassLoop([st EXCEPT !.task.loaded = rows,
                               !.task.changed = changed,
                               !.task.current = current,
                               !.task.idx = 1], hasStorage, pick)

\* init(): the loop over Object.entries(configs) from position task.idx on
RECURSIVE InitLoop(_, _)
InitLoop(st, hasStorage) ==
  LET i == st.task.idx
  IN  IF i <= Len(NameOrder)
      THEN LET name == NameOrder[i]
               row == st.task.loaded[name]
               next == [st EXCEPT !.task.idx = i + 1]
           IN  IF Enabled(row) THEN AddEnter(next, name, row, hasStorage)
               ELSE InitLoop(next, hasStorage)
      ELSE InitFinish(st)

\* init(): `await this.addClient(...)` has settled with task.res; a failure
\* is caught and logged; with more than one config the loop waits 1 s
InitAfterAddRethrows(st) ==
  IF st.task.res = "thrown"
  THEN WithTask(st, [IdleTask EXCEPT !.op = "init", !.pc = "done",
                                     !.res = "thrown"])
  ELSE WithTask(st, [st.task EXCEPT !.pc = "init_delay"])
InitAfterAdd(st) ==
  IF Cardinality({n \in Names : Enabled(st.task.loaded[n])}) > 1
  THEN WithTask(st, [st.task EXCEPT !.pc = "init_delay"])
  ELSE InitLoop(st, TRUE)

\* cleanup(): this.clients.clear()
cleanupClearKept(cl) == cl
cleanupClear(cl) == [n \in Names |-> NoSession]

(* ------------------------------ actions ------------------------------- *)
\* what storage.has(name) may resolve to: anything for a storage that is not
\* modelled further; for the database-backed one, whether the row is
\* enabled, or false when the query fails
storageHas(name) ==
  IF servers = NoDb THEN BOOLEAN ELSE {Enabled(servers[name]), FALSE}

\* storage.save(name, config) resolves: the row is inserted or its config
\* updated, and debounce(refreshClients, 1000) is armed
storageSave(name, config) ==
  IF servers = NoDb THEN UNCHANGED <<servers, debounce>>
  ELSE /\ servers' = [servers EXCEPT ![name] = IF @ = "off" THEN @ ELSE config]
       /\ debounce' = TRUE

\* storage.delete(name) resolves: the row is gone, the debounce is armed
storageDelete(name) ==
  IF servers = NoDb THEN UNCHANGED <<servers, debounce>>
  ELSE /\ servers' = [servers EXCEPT ![name] = "none"]
       /\ debounce' = TRUE

Step(t, st) == RoomFor(st) /\ Apply(t, st)

\* a caller (a tool closure, a test) invokes connect() on a session
CallConnect(t, sid) ==
  /\ Free(t)
  /\ sessions[sid] # Collected
  /\ Step(t, Connect(WithTask(Here(t),
            [IdleTask EXCEPT !.op = "connect", !.fn = "connect"]), sid))
  /\ UNCHANGED store

\* connect(): `await this.locker.wait()` is over; return this.client
ConnectWaited(t) ==
  /\ tasks[t].pc = "c_wait"
  /\ ~LockerIsLocked(sessions[tasks[t].sess])
  /\ Step(t, WithTask(Here(t),
            Done(tasks[t], ReturnClient(sessions[tasks[t].sess]))))
  /\ UNCHANGED store

\* connect(): the cooldown timer has fired; cap check, lock, transport
ConnectSlept(t) ==
  /\ tasks[t].pc = "c_sleep"
  /\ tasks[t].remaining = 0
  /\ LET sid == tasks[t].sess
         r == ConnectProceed(tasks[t], sessions[sid])
     IN  Step(t, WithTask(WithSession(Here(t), sid, r.s), r.task))
  /\ UNCHANGED store

\* connect(): Promise.race([client.connect(transport), 30s timeout]) settles
ConnectRaced(t) ==
  /\ tasks[t].pc = "c_race"
  /\ \E outcome \in {"connected", "failed", "timeout"} :
       LET sid == tasks[t].sess
           s == sessions[sid]
       IN  IF outcome = "connected"
           THEN Step(t, WithTask(WithSession(Here(t), sid, ConnectEstablished(s)),
                                 [tasks[t] EXCEPT !.pc = "c_tools"]))
           ELSE LET s1 == LockerUnlock(ConnectCatch(s))
                IN  Step(t, WithTask(WithSession(Here(t), sid, s1),
                                     Done(tasks[t], ReturnClient(s1))))
  /\ UNCHANGED store

\* connect(): client.listTools() settles
ToolsListed(t) ==
  /\ tasks[t].pc = "c_tools"
  /\ \E ok \in BOOLEAN, response \in ToolLists :
       LET sid == tasks[t].sess
           s == sessions[sid]
       IN  IF ok
           THEN Step(t, WithTask(
                  WithSession(Here(t), sid, [s EXCEPT !.toolInfo = response]),
                  [tasks[t] EXCEPT !.pc = "c_prompts",
                                   !.toolResponse = response]))
           ELSE LET s1 == LockerUnlock(ConnectCatch(s))
                IN  Step(t, WithTask(WithSession(Here(t), sid, s1),
                                     Done(tasks[t], ReturnClient(s1))))
  /\ UNCHANGED store

\* connect(): client.listPrompts() settles; tools built, timer armed, unlock
PromptsListedWith(t, ok, response) ==
  /\ tasks[t].pc = "c_prompts"
  /\ LET sid == tasks[t].sess
         s == sessions[sid]
         s1 == IF ok
               THEN [s EXCEPT !.promptInfo = response] ELSE s
         s2 == ConnectDiscovered(s1, tasks[t].toolResponse)
     IN  Step(t, WithTask(WithSession(Here(t), sid, s2),
                          Done(tasks[t], ReturnClient(s2))))
  /\ UNCHANGED store

PromptsListed(t) ==
  \E ok \in BOOLEAN, response \in PromptLists :
    PromptsListedWith(t, ok, response)

\* a caller invokes disconnect() on a session
CallDisconnect(t, sid) ==
  /\ Free(t)
  /\ sessions[sid] # Collected
  /\ Step(t, Disconnect(WithTask(Here(t),
            [IdleTask EXCEPT !.op = "disconnect", !.fn = "disconnect"]), sid))
  /\ UNCHANGED store

\* the idle timer armed by scheduleAutoDisconnect fires: this.disconnect()
AutoDisconnect(t, sid) ==
  /\ Free(t)
  /\ sessions[sid].timer
  /\ Step(t, Disconnect(
            WithTask(WithSession(Here(t), sid,
                                 [sessions[sid] EXCEPT !.timer = FALSE]),
                     [IdleTask EXCEPT !.op = "disconnect",
                                      !.fn = "disconnect"]), sid))
  /\ UNCHANGED store

\* disconnect(): past `await this.locker.wait()`: lock, reset the state,
\* start killing / closing; or the already-disconnected return
DisconnectAcquired(t) ==
  /\ \/ tasks[t].pc = "d_ready"
     \/ tasks[t].pc = "d_wait" /\ ~LockerIsLocked(sessions[tasks[t].sess])
  /\ \E hasProcess \in BOOLEAN :
       LET sid == tasks[t].sess
           s == LockerLock(sessions[sid])
       IN  IF ~s.isConnected \/ s.client = "undefined"
           THEN Step(t, AfterDisconnect(
                  WithSession(Here(t), sid, LockerUnlock(DisconnectNoop(s)))))
           ELSE Step(t, WithTask(
                  WithSession(Here(t), sid, DisconnectReset(s)),
                  [tasks[t] EXCEPT !.pc =
                     IF isMaybeStdioConfig(s.serverConfig) /\ hasProcess
                     THEN "d_kill" ELSE "d_close"]))
  /\ UNCHANGED store

\* disconnect(): the 500 ms after SIGTERM are over; client.close() is called
DisconnectKilled(t) ==
  /\ tasks[t].pc = "d_kill"
  /\ Step(t, WithTask(Here(t), [tasks[t] EXCEPT !.pc = "d_close"]))
  /\ UNCHANGED store

\* disconnect(): Promise.race([client.close(), 5s timeout]) settles;
\* finally unlock, and the caller goes on
DisconnectClosed(t) ==
  /\ tasks[t].pc = "d_close"
  /\ \E outcome \in {"closed", "timeout", "threw"} :
       LET sid == tasks[t].sess
       IN  Step(t, AfterDisconnect(
             WithSession([Here(t) EXCEPT !.threw = (outcome = "threw")],
                         sid, LockerUnlock(sessions[sid]))))
  /\ UNCHANGED store

\* a caller invokes manager.addClient(name, serverConfig)
AddClient(t, name, config) ==
  /\ Free(t)
  /\ Step(t, AddEnter(WithTask(Here(t), [IdleTask EXCEPT !.op = "addClient"]),
                      name, config, storage))
  /\ UNCHANGED store

\* addClient: storage.has(name) settles
AddHasSettled(t) ==
  /\ tasks[t].pc = "add_has"
  /\ \E has \in storageHas(tasks[t].name) :
       IF has
       THEN Step(t, AddAfterStorage(Here(t)))
       ELSE Step(t, WithTask(Here(t), [tasks[t] EXCEPT !.pc = "add_save"]))
  /\ UNCHANGED store

\* addClient: storage.save(name, serverConfig) settles
AddSaveSettled(t) ==
  /\ tasks[t].pc = "add_save"
  /\ \E ok \in BOOLEAN :
       IF ok
       THEN /\ Step(t, AddAfterStorage(Here(t)))
            /\ storageSave(tasks[t].name, tasks[t].config)
       ELSE /\ Step(t, AddCatch(Here(t)))
            /\ UNCHANGED <<servers, debounce>>
  /\ UNCHANGED <<storage, edits, ids>>

\* a caller invokes manager.removeClient(name)
RemoveClient(t, name) ==
  /\ Free(t)
  /\ Step(t, RemoveEnter(WithTask(Here(t),
                                  [IdleTask EXCEPT !.op = "removeClient"]),
                         name, storage))
  /\ UNCHANGED store

\* removeClient: storage.has(name) settles
RemoveHasSettled(t) ==
  /\ tasks[t].pc = "rm_has"
  /\ \E has \in storageHas(tasks[t].name) :
       IF has
       THEN Step(t, WithTask(Here(t), [tasks[t] EXCEPT !.pc = "rm_delete"]))
       ELSE Step(t, RemoveAfterStorage(Here(t)))
  /\ UNCHANGED store

\* removeClient: storage.delete(name) settles
RemoveDeleteSettled(t) ==
  /\ tasks[t].pc = "rm_delete"
  /\ \E ok \in BOOLEAN :
       IF ok
       THEN /\ Step(t, RemoveAfterStorage(Here(t)))
            /\ storageDelete(tasks[t].name)
       ELSE /\ Step(t, WithTask(Here(t), Done(tasks[t], "thrown")))
            /\ UNCHANGED <<servers, debounce>>
  /\ UNCHANGED <<storage, edits, ids>>

\* a caller invokes manager.refreshClient(name, updateConfig)
RefreshClient(t, name, updateConfig) ==
  /\ Free(t)
  /\ Step(t, RefreshEnter(WithTask(Here(t),
                                   [IdleTask EXCEPT !.op = "refreshClient"]),
                          name, updateConfig, storage))
  /\ UNCHANGED store

\* refreshClient: storage.save(name, config) settles
RefreshSaveSettled(t) ==
  /\ tasks[t].pc = "ref_save"
  /\ \E ok \in BOOLEAN :
       IF ok
       THEN /\ Step(t, RefreshBranch(Here(t), storage))
            /\ storageSave(tasks[t].name, tasks[t].config)
       ELSE /\ Step(t, RefreshCatch(Here(t)))
            /\ UNCHANGED <<servers, debounce>>
  /\ UNCHANGED <<storage, edits, ids>>

\* refreshClient: the one-second pause is over; return this.addClient(...)
RefreshPaused(t) ==
  /\ tasks[t].pc = "ref_pause"
  /\ Step(t, RefreshReAdd(Here(t), storage))
  /\ UNCHANGED store

\* the 15-minute interval fires: cleanupDisconnectedClients()
cleanupDisconnectedClients ==
  /\ \E n \in Names : /\ clients[n] # NoSession
                      /\ Status(sessions[clients[n]]) = "disconnected"
  /\ clients' = [n \in Names |->
                   IF /\ clients[n] # NoSession
                      /\ Status(sessions[clients[n]]) = "disconnected"
                   THEN NoSession ELSE clients[n]]
  /\ sessions' = Collect(sessions, clients', tasks)
  /\ UNCHANGED <<isRefreshing, tasks, initialized, lastServerConfigs,
                 pollingInterval, cleaning, store>>

\* time passes
Tick ==
  /\ sessions' = [sid \in DOMAIN sessions |->
                    [sessions[sid] EXCEPT !.lastConnectionAge = Older(@)]]
  /\ tasks' = [t \in Tasks |->
                 IF tasks[t].pc = "c_sleep"
                 THEN [tasks[t] EXCEPT !.issueAge = Older(@),
                                       !.remaining = Sooner(@)]
                 ELSE tasks[t]]
  /\ UNCHANGED <<clients, isRefreshing, initialized, lastServerConfigs,
                 pollingInterval, cleaning, store>>

\* a new activation takes the first task that is free
FirstFree(t) == Free(t) /\ \A u \in Tasks : u < t => ~Free(u)

\* a tool closure invokes callTool(toolName, input) on a session
CallTool(t, sid) ==
  /\ FirstFree(t)
  /\ sessions[sid] # Collected
  /\ Step(t, Connect(WithTask(Here(t),
            [IdleTask EXCEPT !.op = "callTool", !.fn = "connect",
                             !.batch = "callTool"]), sid))
  /\ UNCHANGED store

\* callTool: `await this.connect()` has settled
ToolConnected(t) ==
  /\ tasks[t].pc = "resume"
  /\ tasks[t].batch = "callTool"
  /\ Step(t, ToolAfterConnect(Here(t)))
  /\ UNCHANGED store

\* callTool: the remote call client.callTool({name, arguments}) settles
ToolCalled(t) ==
  /\ tasks[t].pc = "tool_call"
  /\ \E v \in {"result", "isError", "null", "rejected"} :
       Step(t, ToolChain(Here(t), v))
  /\ UNCHANGED store

\* a caller invokes manager.init()
InitCall(t) ==
  /\ FirstFree(t)
  /\ IF initialized
     THEN Step(t, WithTask(Here(t), [IdleTask EXCEPT !.op = "init",
                                       !.pc = "done", !.res = "void"]))
     ELSE IF storage
     THEN Step(t, WithTask(Here(t), [IdleTask EXCEPT !.op = "init",
                                       !.batch = "init_pass",
                                       !.pc = "pass_load"]))
     ELSE Step(t, InitFinish(Here(t)))
  /\ UNCHANGED store

\* refreshClients: `await mcpRepository.selectAllServers()` settles
PassLoaded(t) ==
  /\ tasks[t].pc = "pass_load"
  /\ \E ok \in BOOLEAN, pick \in Names :
       IF ok
       THEN Step(t, PassStart(Here(t), servers, storage, pick))
       ELSE Step(t, PassCatch(Here(t)))
  /\ UNCHANGED store

\* refreshClients: the awaited manager call has settled
PassResumed(t) ==
  /\ tasks[t].pc = "resume"
  /\ tasks[t].batch \in {"pass", "init_pass"}
  /\ \E pick \in Names :
       IF tasks[t].res = "thrown"
       THEN Step(t, PassCatch(Here(t)))
       ELSE Step(t, PassLoop(Here(t), storage, pick))
  /\ UNCHANGED store

\* init(): `await this.storage.loadAll()` settles; loadAll returns {} when
\* its query fails
InitLoaded(t) ==
  /\ tasks[t].pc = "init_load"
  /\ \E ok \in BOOLEAN :
       LET rows == IF ok THEN servers ELSE NoRows
       IN  Step(t, InitLoop(WithTask(Here(t),
                     [tasks[t] EXCEPT !.loaded = rows, !.idx = 1]), storage))
  /\ UNCHANGED store

\* init(): `await this.addClient(name, serverConfig)` has settled
InitResumed(t) ==
  /\ tasks[t].pc = "resume"
  /\ tasks[t].batch = "init"
  /\ Step(t, InitAfterAdd(Here(t)))
  /\ UNCHANGED store

\* init(): the 1 s delay between two servers is over
InitDelayed(t) ==
  /\ tasks[t].pc = "init_delay"
  /\ Step(t, InitLoop(Here(t), storage))
  /\ UNCHANGED store

\* the debounce's timer fires: refreshClients() is called
DebounceFired(t) ==
  /\ debounce
  /\ FirstFree(t)
  /\ debounce' = FALSE
  /\ Step(t, WithTask(Here(t), [IdleTask EXCEPT !.op = "refreshClients",
                                   !.batch = "pass", !.pc = "pass_load"]))
  /\ UNCHANGED <<storage, servers, edits, ids>>

\* the 5-minute interval fires: debounce(refreshClients, 1000)
PollFired ==
  /\ pollingInterval
  /\ debounce' = TRUE
  /\ UNCHANGED <<sessions, clients, isRefreshing, storage, tasks, initialized,
                 lastServerConfigs, servers, pollingInterval, cleaning,
                 edits, ids>>

\* somebody else writes the servers table
DbEdited(name, row) ==
  /\ servers # NoDb
  /\ servers[name] # row
  /\ edits < MaxEdits
  /\ edits' = edits + 1
  /\ servers' = [servers EXCEPT ![name] = row]
  /\ UNCHANGED <<sessions, clients, isRefreshing, storage, tasks, initialized,
                 lastServerConfigs, debounce, pollingInterval, cleaning,
                 ids>>

\* a caller invokes manager.cleanup(): the map is copied and cleared, and
\* disconnect() is called on every copied session (task of[sid] runs it)
Cleanup ==
  /\ cleaning.res = "none"
  /\ LET targets == registeredClients(sessions, clients)
         free == {t \in Tasks : Free(t)}
     IN  \E of \in [targets -> free] :
           /\ \A x, y \in targets : of[x] = of[y] => x = y
           /\ LET ran == {of[sid] : sid \in targets}
                  tk == [t \in Tasks |->
                          IF t \in ran
                          THEN LET sid == CHOOSE x \in targets : of[x] = t
                               IN  DisconnectEnter(
                                     [IdleTask EXCEPT !.op = "cleanup",
                                                      !.fn = "cleanup"],
                                     sid, sessions[sid])
                          ELSE tasks[t]]
              IN  /\ tasks' = tk
                  /\ clients' = cleanupClear(clients)
                  /\ sessions' = Collect(sessions, cleanupClear(clients), tk)
                  /\ cleaning' = [pending |-> ran, threw |-> FALSE,
                                  res |-> IF ran = {} THEN allSettled(FALSE)
                                          ELSE "pending",
                                  suspended |->
                                    {t \in Tasks : tk[t].fn \in
                                       {"addClient", "refreshClient"}}]
  /\ UNCHANGED <<isRefreshing, initialized, lastServerConfigs,
                 pollingInterval, store>>

\* tools(): createMCPToolId(clientName, toolName) for two (server, tool)
\* pairs
CreateIds ==
  /\ ids.stage = "names"
  /\ ids' = [ids EXCEPT
        !.stage = "id",
        !.toolId = createMCPToolId(ids.serverName, ids.toolName),
        !.otherId = createMCPToolId(ids.otherServer, ids.otherTool)]
  /\ UNCHANGED <<sessions, clients, isRefreshing, storage, tasks, initialized,
                 lastServerConfigs, servers, debounce, pollingInterval,
                 cleaning, edits>>

\* extractMCPToolId(toolId)
ExtractId ==
  /\ ids.stage = "id"
  /\ ids' = [ids EXCEPT !.stage = "parts",
                        !.extracted = extractMCPToolId(ids.toolId)]
  /\ UNCHANGED <<sessions, clients, isRefreshing, storage, tasks, initialized,
                 lastServerConfigs, servers, debounce, pollingInterval,
                 cleaning, edits>>

(* --------------------------- specifications --------------------------- *)
NoClients == [n \in Names |-> NoSession]
NoTasks == [t \in Tasks |-> IdleTask]

\* the manager after construction, no session yet
Init ==
  /\ sessions = [sid \in SessionIds |-> Collected]
  /\ clients = NoClients
  /\ isRefreshing = FALSE
  /\ storage \in BOOLEAN
  /\ tasks = NoTasks
  /\ initialized = FALSE
  /\ lastServerConfigs = NoCache
  /\ servers = NoDb
  /\ debounce = FALSE
  /\ pollingInterval = FALSE
  /\ cleaning = NoCleanup
  /\ edits = 0
  /\ ids = NoIds

SessionSteps(t) ==
  \/ ConnectRaced(t)
  \/ ToolsListed(t)
  \/ PromptsListed(t)
  \/ DisconnectAcquired(t)
  \/ DisconnectKilled(t)
  \/ DisconnectClosed(t)

Next ==
  \/ \E t \in Tasks :
       \/ \E name \in Names, config \in ManagerConfigs :
            AddClient(t, name, config)
       \/ \E name \in Names : RemoveClient(t, name)
       \/ \E name \in Names, updateConfig \in UpdateConfigs :
            RefreshClient(t, name, updateConfig)
       \/ AddHasSettled(t)
       \/ AddSaveSettled(t)
       \/ RemoveHasSettled(t)
       \/ RemoveDeleteSettled(t)
       \/ RefreshSaveSettled(t)
       \/ RefreshPaused(t)
       \/ \E sid \in SessionIds : AutoDisconnect(t, sid)
       \/ SessionSteps(t)
  \/ cleanupDisconnectedClients

Spec == Init /\ [][Next]_vars

\* one MCPClient as addClient constructs and registers it, driven directly
\* by its callers; the idle timer's disconnect() is one of the disconnect()
\* calls
InitSession ==
  /\ \E config \in Configs :
       sessions = [sid \in SessionIds |->
                     IF sid = 1 THEN NewSession(<<"a">>, config, TRUE)
                     ELSE Collected]
  /\ clients = [NoClients EXCEPT ![<<"a">>] = 1]
  /\ isRefreshing = FALSE
  /\ storage = FALSE
  /\ tasks = NoTasks
  /\ initialized = FALSE
  /\ lastServerConfigs = NoCache
  /\ servers = NoDb
  /\ debounce = FALSE
  /\ pollingInterval = FALSE
  /\ cleaning = NoCleanup
  /\ edits = 0
  /\ ids = NoIds

NextSession ==
  \/ \E t \in Tasks :
       \/ \E sid \in SessionIds : CallConnect(t, sid)
       \/ \E sid \in SessionIds : CallDisconnect(t, sid)
       \/ ConnectWaited(t)
       \/ ConnectSlept(t)
       \/ SessionSteps(t)
  \/ Tick

SpecSession == InitSession /\ [][NextSession]_vars

\* the manager over the database-backed storage with one server name in
\* the table: init() calls, the storage's reconciliation passes and all
\* that triggers them
InitStore ==
  /\ sessions = [sid \in SessionIds |-> Collected]
  /\ clients = NoClients
  /\ isRefreshing = FALSE
  /\ storage = TRUE
  /\ tasks = NoTasks
  /\ initialized = FALSE
  /\ lastServerConfigs = NoCache
  /\ servers \in {r \in [Names -> Rows] : r[<<"b">>] = "none"}
  /\ debounce = FALSE
  /\ pollingInterval = FALSE
  /\ cleaning = NoCleanup
  /\ edits = 0
  /\ ids = NoIds

NextStore ==
  \/ \E t \in Tasks :
       \/ InitCall(t)
       \/ InitLoaded(t)
       \/ InitResumed(t)
       \/ PassLoaded(t)
       \/ PassResumed(t)
       \/ DebounceFired(t)
       \/ AddHasSettled(t)
       \/ AddSaveSettled(t)
       \/ RemoveHasSettled(t)
       \/ RemoveDeleteSettled(t)
       \/ RefreshSaveSettled(t)
       \/ RefreshPaused(t)
       \/ SessionSteps(t)
  \/ PollFired
  \/ \E row \in Rows : DbEdited(<<"a">>, row)

SpecStore == InitStore /\ [][NextStore]_vars

\* init() called while no init() is in progress and the manager is not yet
\* initialized
InitCallAlone(t) ==
  /\ ~initialized
  /\ \A u \in Tasks : tasks[u].op # "init" \/ tasks[u].pc = "done"
  /\ InitCall(t)

\* the manager over the database-backed storage with two servers in the
\* table: the batch of init(), the passes its saves trigger, and cleanup()
InitBatch ==
  /\ sessions = [sid \in SessionIds |-> Collected]
  /\ clients = NoClients
  /\ isRefreshing = FALSE
  /\ storage = TRUE
  /\ tasks = NoTasks
  /\ initialized = FALSE
  /\ lastServerConfigs = NoCache
  /\ servers \in [Names -> ManagerConfigs]
  /\ debounce = FALSE
  /\ pollingInterval = FALSE
  /\ cleaning = NoCleanup
  /\ edits = 0
  /\ ids = NoIds

NextBatch ==
  \/ \E t \in Tasks :
       \/ InitCallAlone(t)
       \/ InitLoaded(t)
       \/ InitResumed(t)
       \/ InitDelayed(t)
       \/ PassLoaded(t)
       \/ PassResumed(t)
       \/ DebounceFired(t)
       \/ AddHasSettled(t)
       \/ AddSaveSettled(t)
       \/ SessionSteps(t)
  \/ Cleanup

SpecBatch == InitBatch /\ [][NextBatch]_vars

\* time passes while a connect() is waiting out its cooldown
TickCooldown ==
  /\ \E t \in Tasks : tasks[t].pc = "c_sleep"
  /\ Tick

\* one registered session whose tools are called; its idle timer fires
NextCallTool ==
  \/ \E t \in Tasks :
       \/ \E sid \in SessionIds : CallTool(t, sid)
       \/ ToolConnected(t)
       \/ ToolCalled(t)
       \/ \E sid \in SessionIds : AutoDisconnect(t, sid)
       \/ ConnectWaited(t)
       \/ ConnectSlept(t)
       \/ SessionSteps(t)
  \/ TickCooldown

\* a stdio session as addClient constructs and registers it
InitCallTool ==
  /\ sessions = [sid \in SessionIds |->
                   IF sid = 1 THEN NewSession(<<"a">>, "stdio", TRUE)
                   ELSE Collected]
  /\ clients = [NoClients EXCEPT ![<<"a">>] = 1]
  /\ isRefreshing = FALSE
  /\ storage = FALSE
  /\ tasks = NoTasks
  /\ initialized = FALSE
  /\ lastServerConfigs = NoCache
  /\ servers = NoDb
  /\ debounce = FALSE
  /\ pollingInterval = FALSE
  /\ cleaning = NoCleanup
  /\ edits = 0
  /\ ids = NoIds

SpecCallTool == InitCallTool /\ [][NextCallTool]_vars

\* the steps the program takes by itself: continuations of settled awaits,
\* and awaits that race against a timeout (30 s connect, 500 ms kill, 5 s
\* close); the answers of the remote peer are not among them
FairSession ==
  \A t \in Tasks :
    /\ WF_vars(ToolConnected(t))
    /\ WF_vars(ConnectWaited(t))
    /\ WF_vars(ConnectRaced(t))
    /\ WF_vars(DisconnectAcquired(t))
    /\ WF_vars(DisconnectKilled(t))
    /\ WF_vars(DisconnectClosed(t))

\* ... and the cooldown sleep of connect() ends
FairCooldown ==
  /\ \A t \in Tasks : WF_vars(ConnectSlept(t))
  /\ WF_vars(TickCooldown)

SpecCallToolFair ==
  InitCallTool /\ [][NextCallTool]_vars /\ FairSession /\ FairCooldown

\* the tool-ID functions applied to two (server, tool) pairs, or
\* extractMCPToolId applied to an ID from elsewhere
InitToolId ==
  /\ sessions = [sid \in SessionIds |-> Collected]
  /\ clients = NoClients
  /\ isRefreshing = FALSE
  /\ storage = FALSE
  /\ tasks = NoTasks
  /\ initialized = FALSE
  /\ lastServerConfigs = NoCache
  /\ servers = NoDb
  /\ debounce = FALSE
  /\ pollingInterval = FALSE
  /\ cleaning = NoCleanup
  /\ edits = 0
  /\ \/ \E s1 \in ServerNames, t1 \in ToolNames,
           s2 \in ServerNames, t2 \in ToolNames :
          ids = [NoIds EXCEPT !.stage = "names",
                              !.serverName = s1, !.toolName = t1,
                              !.otherServer = s2, !.otherTool = t2]
     \/ \E raw \in RawIds :
          ids = [NoIds EXCEPT !.stage = "id", !.toolId = raw]

NextToolId == CreateIds \/ ExtractId

SpecToolId == InitToolId /\ [][NextToolId]_vars

(* ------------------------------ properties ---------------------------- *)
\* a connect body (lock() .. unlock()) of session sid is in flight
Connecting(sid) ==
  \E t \in Tasks : tasks[t].sess = sid /\ tasks[t].pc \in ConnectBodyPcs

\* the connect / disconnect bodies of session sid in flight
BodiesInFlight(sid) ==
  {t \in Tasks : /\ tasks[t].sess = sid
                 /\ tasks[t].pc \in ConnectBodyPcs \cup DisconnectBodyPcs}

\* session sid is connected or connecting
Live(sid) ==
  /\ sessions[sid] # Collected
  /\ sessions[sid].isConnected \/ Connecting(sid)

\* the step ends a call of task t that was suspended at one of pcs
Settles(t, pcs) == tasks[t].pc \in pcs /\ tasks'[t].pc = "done"

\* C1: at most one live session per name: two distinct session objects
\* created for the same name are never both connected or connecting.
OneLiveSessionPerName ==
  \A sid1, sid2 \in SessionIds :
    (/\ Live(sid1) /\ Live(sid2)
     /\ sessions[sid1].name = sessions[sid2].name) => sid1 = sid2

\* C2: the session lock totally orders the transitions of a session: at
\* most one connect or disconnect body is in flight on it at any time.
OneBodyInFlight ==
  \A sid \in SessionIds : Cardinality(BodiesInFlight(sid)) <= 1

\* C3: tools() and prompts() hold entries from exactly the registered
\* sessions that are connected and not locked: every tool and prompt of
\* those, under createMCPToolId(name, tool) and name/prompt, none of another.
AggregationOnlyConnected ==
  LET K == {n \in Names : /\ clients[n] # NoSession
                          /\ sessions[clients[n]].isConnected
                          /\ ~sessions[clients[n]].locked}
      T == tools(sessions, clients)
      P == prompts(sessions, clients)
  IN  /\ DOMAIN T = UNION { {createMCPToolId(n, tool) :
                               tool \in sessions[clients[n]].tools} : n \in K }
      /\ DOMAIN P = UNION { {promptKey(n, prompt) :
                               prompt \in sessions[clients[n]].promptInfo}
                            : n \in K }
      /\ \A k \in DOMAIN T : \A e \in T[k] :
           \E n \in K : clients[n] = e.client
      /\ \A k \in DOMAIN P : \A e \in P[k] :
           \E n \in K : clients[n] = e.client

\* C3 witness: two registered sessions, both holding discovered tools, of
\* which one is connected and one is not; tools() has the keys of the first.
AggregationSkipsOne ==
  \E n, m \in Names :
    /\ n # m /\ clients[n] # NoSession /\ clients[m] # NoSession
    /\ Status(sessions[clients[n]]) = "connected"
    /\ Status(sessions[clients[m]]) # "connected"
    /\ sessions[clients[n]].tools # {}
    /\ sessions[clients[m]].tools # {}
    /\ sessions[clients[n]].promptInfo # {}
    /\ DOMAIN tools(sessions, clients) =
         {createMCPToolId(n, tool) : tool \in sessions[clients[n]].tools}

\* C4: when a disconnect() call returns (close succeeded, timed out or
\* threw), the session has status disconnected and its handle is cleared.
DisconnectReturnsCleared ==
  [][\A t \in Tasks :
       (/\ tasks[t].op = "disconnect"
        /\ Settles(t, {"d_ready", "d_wait", "d_kill", "d_close"}))
       => /\ Status(sessions'[tasks[t].sess]) = "disconnected"
          /\ sessions'[tasks[t].sess].client = "undefined"]_vars

\* C5: a connect() whose transport construction, raced connect or tool
\* discovery fails does not throw, leaves the session not connected with the
\* error stored, and the lock released; every connect() that leaves its body
\* leaves the lock released.
ConnectFailureRecorded ==
  [][\A t \in Tasks :
       LET sid == IF tasks[t].pc \in {"idle", "done"}
                  THEN CHOOSE x \in SessionIds : sessions[x] # Collected
                  ELSE tasks[t].sess
           constructionFails ==
             /\ tasks'[t].op = "connect"
             /\ tasks'[t] # tasks[t]
             /\ Settles(t, {"idle", "done", "c_sleep"})
             /\ ~TransportConstructible(sessions[sid].serverConfig)
             /\ tasks'[t].res # "thrown"
           bodyFails == Settles(t, {"c_race", "c_tools"})
           bodyEnds == Settles(t, ConnectBodyPcs)
       IN  /\ (constructionFails \/ bodyFails)
             => /\ ~sessions'[sid].isConnected
                /\ sessions'[sid].error
                /\ ~LockerIsLocked(sessions'[sid])
                /\ tasks'[t].res \in {"undefined", "handle"}
           /\ bodyEnds => ~LockerIsLocked(sessions'[sid])]_vars

\* C5 witness: a connect() call has returned undefined, and the session is
\* not connected, holds the error, and is not locked.
ConnectFailed ==
  \E t \in Tasks, sid \in SessionIds :
    /\ tasks[t].op = "connect" /\ tasks[t].pc = "done"
    /\ tasks[t].res = "undefined"
    /\ sessions[sid].error /\ ~sessions[sid].isConnected
    /\ ~sessions[sid].locked /\ sessions[sid].connectionAttempts > 0

\* C6: a connect() call that follows 5 consecutive failed attempts, each less
\* than 60 s after the one before, opens no transport.
SixthAttemptOpensNothing ==
  \A t \in Tasks : tasks[t].pc \in ConnectBodyPcs => ~tasks[t].sixth

RefreshHoldsFlag ==
  \A t \in Tasks :
    (tasks[t].op = "refreshClient" /\ tasks[t].pc \notin {"idle", "done"})
      => isRefreshing

\* C9: a refreshClient(name) call entered with a session registered for name
\* that settles with an error leaves an entry for name in the map.
FailedRefreshKeepsName ==
  [][\A t \in Tasks :
       (/\ tasks[t].op = "refreshClient"
        /\ tasks[t].prev # NoSession
        /\ Settles(t, {"ref_save", "add_has", "add_save"})
        /\ tasks'[t].res = "thrown")
       => clients'[tasks[t].name] # NoSession]_vars

\* C10: when the connection attempt of the session that addClient created
\* fails, the call rejects and the map no longer holds that session.
FailedAddLeavesNoEntry ==
  [][\A t \in Tasks :
       (/\ tasks[t].op = "addClient"
        /\ tasks[t].created # NoSession
        /\ tasks[t].sess = tasks[t].created
        /\ Settles(t, {"c_race", "c_tools"}))
       => /\ tasks'[t].res = "thrown"
          /\ clients'[tasks[t].name] # tasks[t].created]_vars

\* C11: when a removeClient(name) call settles, resolved or rejected, the
\* map has no entry for name.
RemoveAlwaysRemoves ==
  [][\A t \in Tasks :
       (/\ tasks[t].op = "removeClient"
        /\ Settles(t, {"rm_has", "rm_delete", "d_ready", "d_wait",
                       "d_kill", "d_close"}))
       => clients'[tasks[t].name] = NoSession]_vars

\* C12: a caller whose addClient(name, config) created the only session
\* there is, still connected, calls addClient(name, config) again: the call
\* returns what the first call returned, and sessions and map are unchanged.
SecondAddReturnsSame ==
  [][\A t \in Tasks, name \in Names, config \in ManagerConfigs :
       (/\ tasks[t].op = "addClient" /\ tasks[t].pc = "done"
        /\ tasks[t].res = "handle"
        /\ \A u \in Tasks \ {t} : tasks[u].pc = "idle"
        /\ clients[name] # NoSession
        /\ \A n \in Names \ {name} : clients[n] = NoSession
        /\ sessions[clients[name]].serverConfig = config
        /\ Status(sessions[clients[name]]) = "connected"
        /\ AddClient(t, name, config))
       => /\ tasks'[t].res = tasks[t].res
          /\ sessions' = sessions /\ clients' = clients]_vars

\* C13: the step that invokes cleanup() leaves the map empty, and has
\* started disconnect() on every session that was registered, each in its
\* own activation, before any of them has made a step.
CleanupClearsThenDisconnectsAll ==
  [][(cleaning.res = "none" /\ cleaning'.res # "none")
     => /\ clients' = NoClients
        /\ \A sid \in registeredClients(sessions, clients) :
             \E t \in cleaning'.pending :
               /\ tasks'[t].op = "cleanup" /\ tasks'[t].sess = sid
               /\ tasks'[t].pc \in {"d_ready", "d_wait"}]_vars

\* cleanup() was invoked with two sessions registered: the map is empty
\* while both disconnects are still pending
CleanupPendingOnTwo ==
  /\ clients = NoClients
  /\ cleaning.res = "pending"
  /\ Cardinality(cleaning.pending) = 2
  /\ \A t \in cleaning.pending : tasks[t].pc \in {"d_ready", "d_wait"}

\* C14: a failing addClient does not end init(): whatever the awaited
\* addClient settled with, the loop goes to its delay and then calls
\* addClient for the next enabled server, in order, and init() resolves only
\* when no server is left; cleanup() never rejects, whatever its disconnects
\* ran into.
BatchSurvivesFailure ==
  [][/\ cleaning'.res \in {"none", "pending", "void"}
     /\ \A t \in Tasks :
          (/\ tasks[t].batch = "init"
           /\ tasks[t].pc \in {"resume", "init_delay"}
           /\ tasks'[t] # tasks[t])
          => LET loaded == tasks[t].loaded
                 several == Cardinality({n \in Names : Enabled(loaded[n])}) > 1
                 rest == {j \in tasks[t].idx..Len(NameOrder) :
                            Enabled(loaded[NameOrder[j]])}
             IN  IF tasks[t].pc = "resume" /\ several
                 THEN /\ tasks'[t].pc = "init_delay"
                      /\ tasks'[t].idx = tasks[t].idx
                 ELSE IF rest = {}
                 THEN /\ tasks'[t].pc = "done" /\ tasks'[t].res = "void"
                      /\ initialized'
                 ELSE LET j == CHOOSE i \in rest : \A k \in rest : i <= k
                      IN  /\ tasks'[t].idx = j + 1
                          /\ tasks'[t].batch = "init"
                          /\ \/ tasks'[t].name = NameOrder[j]
                             \/ tasks'[t].pc = "resume"]_vars

\* init() is inside its addClient for the second server after the one for
\* the first server has failed and left nothing registered
InitPastFailedAdd ==
  \E t \in Tasks :
    /\ tasks[t].batch = "init" /\ tasks[t].res = "thrown"
    /\ tasks[t].name = NameOrder[2]
    /\ tasks[t].pc \in {"add_has", "add_save", "c_race"}
    /\ clients[NameOrder[1]] = NoSession
    /\ cleaning.res = "none"

\* C15: at most one init() call is ever past the `initialized` check, that
\* is, running storage.init or the initial addClient batch.
InitRunsOnce ==
  Cardinality({t \in Tasks : tasks[t].batch \in {"init_pass", "init"}}) <= 1

\* C16: a reconciliation pass whose query settles while the fingerprints of
\* the enabled rows are the cached ones is over with that step: it has made
\* no addClient, removeClient or refreshClient call, and sessions, map and
\* cache are as they were.
UnchangedPassIsNoop ==
  [][\A t \in Tasks :
       (/\ tasks[t].pc = "pass_load"
        /\ tasks'[t] # tasks[t]
        /\ newServerConfigs(servers) = lastServerConfigs)
       => /\ sessions' = sessions /\ clients' = clients
          /\ lastServerConfigs' = lastServerConfigs
          /\ isRefreshing' = isRefreshing
          /\ IF tasks[t].batch = "pass"
             THEN /\ tasks'[t].pc = "done"
                  /\ tasks'[t].res \in {"skipped", "failed"}
             ELSE tasks'[t].pc = "init_load"]_vars

\* a pass has found the fingerprints of a non-empty table in the cache and
\* has returned
PassSkipped ==
  \E t \in Tasks :
    /\ tasks[t].op = "refreshClients" /\ tasks[t].res = "skipped"
    /\ lastServerConfigs # NoCache
    /\ newServerConfigs(servers) = lastServerConfigs

\* a step of task t ends its reconciliation pass with outcome how
PassOver(t, how) ==
  IF tasks[t].batch = "pass"
  THEN tasks'[t].pc = "done" /\ tasks'[t].res = how
  ELSE tasks'[t].pc = "init_load"

\* C17: lastServerConfigs changes only in the step that ends a pass none of
\* whose calls has thrown, and then to the fingerprints of the rows that
\* pass loaded; a pass whose awaited call has thrown ends without rejecting
\* and leaves the cache as it was.
CacheOnlyAfterSuccess ==
  [][/\ lastServerConfigs' # lastServerConfigs
        => \E t \in Tasks :
             /\ tasks[t].batch \in {"pass", "init_pass"}
             /\ tasks[t].pc \in {"pass_load", "resume"}
             /\ tasks[t].res # "thrown"
             /\ PassOver(t, "applied")
             /\ lastServerConfigs' =
                  newServerConfigs(IF tasks[t].pc = "pass_load" THEN servers
                                   ELSE tasks[t].loaded)
     /\ \A t \in Tasks :
          (/\ tasks[t].batch \in {"pass", "init_pass"}
           /\ tasks[t].pc = "resume" /\ tasks[t].res = "thrown"
           /\ tasks'[t] # tasks[t])
          => /\ lastServerConfigs' = lastServerConfigs
             /\ PassOver(t, "failed")]_vars

\* a pass has failed and returned: the cache still holds the fingerprints
\* of an earlier pass, which are not those of the table
FailedPassKeptCache ==
  \E t \in Tasks :
    /\ tasks[t].op = "refreshClients" /\ tasks[t].res = "failed"
    /\ lastServerConfigs # NoCache
    /\ newServerConfigs(servers) # lastServerConfigs

\* C18: at most one reconciliation pass (startup, polled or debounced) is
\* running at any time.
OnePassAtATime ==
  Cardinality({t \in Tasks : tasks[t].batch \in {"pass", "init_pass"}}) <= 1

\* C19: a callTool call that resolves has resolved with a result that is
\* neither null nor marked isError.
ToolCallReturnsOnlyGood ==
  \A t \in Tasks :
    (tasks[t].op = "callTool" /\ tasks[t].pc = "done")
    => tasks[t].res \in {"result", "thrown"}

\* C20: every callTool call that has settled, with a result or with an
\* error, has rescheduled the idle auto-disconnect timer.
ToolCallAlwaysReschedules ==
  \A t \in Tasks :
    (tasks[t].op = "callTool" /\ tasks[t].pc = "done") => tasks[t].scheduled

\* C21: when the prompt listing of a connect() fails (transport connected
\* and still connected, tools listed), the session is left connected, with
\* the listed tools, and with promptInfo empty.
PromptFailureLeavesEmpty ==
  [][\A t \in Tasks, response \in PromptLists :
       (/\ tasks[t].pc = "c_prompts"
        /\ sessions[tasks[t].sess].isConnected
        /\ PromptsListedWith(t, FALSE, response))
       => LET s == sessions'[tasks[t].sess]
          IN  /\ s.promptInfo = {}
              /\ s.isConnected /\ ~LockerIsLocked(s)
              /\ s.tools = tasks[t].toolResponse]_vars

\* the idle timer of session sid has just fired on a connected session
FiredOnConnected(sid) ==
  /\ Status(sessions[sid]) = "connected"
  /\ ~sessions[sid].timer
  /\ \E t \in Tasks : /\ tasks[t].op = "disconnect" /\ tasks[t].sess = sid
                       /\ tasks[t].pc = "d_ready"

ToolIdRoundTrip ==
  ids.stage = "parts"
  => LET sanitizedServer == sanitizeFunctionName(ids.serverName)
         sanitizedTool == sanitizeFunctionName(ids.toolName)
     IN  /\ (/\ ids.toolId = createMCPToolId(ids.serverName, ids.toolName)
             /\ indexOfUnderscore(sanitizedServer, 1) = 0
             /\ Len(sanitizedServer) + Len(sanitizedTool) + 1
                  <= MAX_NAME_LENGTH)
            => ids.extracted = [serverName |-> sanitizedServer,
                                toolName |-> sanitizedTool]
         /\ indexOfUnderscore(ids.toolId, 1) = 0
            => ids.extracted = [serverName |-> ids.toolId, toolName |-> << >>]

\* "weather-server" / "get_forecast" has made the round trip
WeatherForecastExtracted ==
  /\ ids.stage = "parts"
  /\ ids.toolId = createMCPToolId(ids.serverName, ids.toolName)
  /\ ids.extracted.serverName =
       <<"w","e","a","t","h","e","r","-","s","e","r","v","e","r">>
  /\ ids.extracted.toolName =
       <<"g","e","t","_","f","o","r","e","c","a","s","t">>

\* C24: the map entry a manager operation writes is still the one it read
\* for its decision: when addClient registers its new session the entry of
\* the name is the existingClient it read on entry, and when removeClient
\* deletes the entry it is the session removeClient read and disconnected.
MapWritesAtomic ==
  [][\A t \in Tasks :
       /\ (/\ tasks[t].fn = "addClient"
           /\ tasks[t].created = NoSession
           /\ tasks'[t].created # NoSession)
          => clients[tasks[t].name] = tasks[t].existing
       /\ (/\ tasks[t].fn = "removeClient"
           /\ tasks[t].pc \in {"d_ready", "d_wait", "d_kill", "d_close"}
           /\ tasks'[t].pc = "done")
          => clients[tasks[t].name] = tasks[t].sess]_vars

\* C25: while no connect() or disconnect() call is in flight on a session,
\* the session has a cached remote handle exactly when isConnected is set;
\* and a connect() whose tool listing fails after the transport connected
\* leaves the session disconnected without handle and returns no handle.
HandleIffConnected ==
  /\ [](\A sid \in SessionIds :
          (\A t \in Tasks : tasks[t].sess = sid => Free(t))
          => (sessions[sid].client = "handle" <=> sessions[sid].isConnected))
  /\ [][\A t \in Tasks :
          (Settles(t, {"c_tools"}) /\ BodiesInFlight(tasks[t].sess) = {t})
          => /\ Status(sessions'[tasks[t].sess]) = "disconnected"
             /\ sessions'[tasks[t].sess].client = "undefined"
             /\ tasks'[t].res = "undefined"]_vars

\* C26: a session lock taken by connect() is released again whether or not
\* the remote peer ever answers, and a disconnect() waiting for a session
\* comes to its end.
LockAlwaysReleased ==
  /\ \A sid \in SessionIds :
       LockerIsLocked(sessions[sid]) ~> ~LockerIsLocked(sessions[sid])
  /\ \A t \in Tasks :
       (tasks[t].op = "disconnect" /\ tasks[t].pc = "d_wait")
       ~> (tasks[t].pc # "d_wait")

\* C27: when a call opens a transport, the previous open of the session
\* started at least CONNECTION_COOLDOWN_MS earlier (lastConnectionTime is
\* no later than that open, so its age bounds the gap from above), and a
\* call that opens after its cooldown sleep does not do so next to another
\* call that slept and opened.
OpensCooldownApart ==
  [][\A t \in Tasks :
       (tasks[t].pc # "c_race" /\ tasks'[t].pc = "c_race")
       => /\ sessions[tasks'[t].sess].lastConnectionAge
               >= CONNECTION_COOLDOWN_MS
          /\ tasks[t].pc = "c_sleep"
             => ~\E u \in Tasks \ {t} :
                    /\ tasks[u].sess = tasks[t].sess
                    /\ tasks[u].pc \in ConnectBodyPcs
                    /\ tasks[u].delayed]_vars

\* C28: when a pass ends by storing its fingerprints, every name with a
\* stored fingerprint has a registered session whose config has that
\* fingerprint.
CacheAgreesWithRegistry ==
  [][(\/ lastServerConfigs' # lastServerConfigs
      \/ \E t \in Tasks :
           /\ tasks[t].batch = "pass"
           /\ tasks[t].pc \in {"pass_load", "resume"}
           /\ tasks'[t].pc = "done" /\ tasks'[t].res = "applied")
     => \A n \in Names :
          lastServerConfigs'[n] # NoFingerprint
          => /\ clients'[n] # NoSession
             /\ JSONstringify(sessions'[clients'[n]].serverConfig)
                  = lastServerConfigs'[n]]_vars

\* C29: two distinct (server name, tool name) pairs get distinct tool IDs
\* from createMCPToolId.
ToolIdsDistinct ==
  (/\ ids.stage \in {"id", "parts"}
   /\ <<ids.serverName, ids.toolName>> # <<ids.otherServer, ids.otherTool>>)
  => ids.toolId # ids.otherId

\* C30: after cleanup() an addClient or refreshClient call that was
\* suspended at an await when cleanup() ran registers no session: its steps
\* leave the entry of its name as it is or empty.
CleanupIsFinal ==
  [][\A t \in Tasks :
       (t \in cleaning.suspended /\ tasks'[t] # tasks[t])
       => \/ clients'[tasks[t].name] = clients[tasks[t].name]
          \/ clients'[tasks[t].name] = NoSession]_vars

====
